---- MODULE Spec2Model ----
(***************************************************************************)
(* Model of SFAI-Cap3D-Download: the resumable retrying downloader         *)
(* (download.py), the checksum verifier (utils/checksum.py), the recursive *)
(* archive extractor (utils/unzip_file.py) and the pipeline that sequences *)
(* them (download.py main).                                                *)
(***************************************************************************)
EXTENDS Integers, Sequences, FiniteSets, TLC

\* ------------------------------------------------------------------ bounds
\* Size in bytes of the remote payload.
PayloadLen == 3
\* Largest value of --max_retries explored.
MaxRetriesArg == 3
\* Smallest value of --max_retries explored: argparse takes any int.
MinRetriesArg == 0 - 1
\* Largest value of --chunk_size explored.
MaxChunkSize == 2
\* Deepest nesting of the container trees explored.
MaxNesting == 3
\* Largest value of --max_recursion_depth explored.
MaxDepthArg == 3

\* ------------------------------------------------------- program constants
HTTP_OK == 200
HTTP_PARTIAL == 206
HTTP_RANGE_NOT_SATISFIABLE == 416
HTTP_SERVER_ERROR == 500

VARIABLES
    pc,                 \* position of the main thread
    args,               \* parsed command line (download.py main)
    honours,            \* the server honours Range requests
    file,               \* bytes of the destination file on disk
    fileExists,         \* the destination path exists
    retry_count,        \* download_file_with_retry local
    resume_header,      \* download_file_with_retry local
    body,               \* response body not yet delivered by iter_content
    reqLog,             \* every request issued, with the disk state when sent
    statusLog,          \* outcome of every request: a status, 0: no response
    download_succeeded, \* "none" | "true" | "false" | "raised" | "interrupted"
    checksum,           \* "none" | "true" | "false" | "raised" | error name
    expected_hash,      \* perform_checksum local: the pointer's hash
    exit,               \* "none" | "0" | "1": exit status of main
    initial,            \* the destination as it was before the run
    pointer_file,       \* perform_checksum local: the pointer file received
    pointer_log,        \* outcome of every pointer request, 0: no response
    layout,             \* the container tree the top-level zip file holds
    files,              \* extraction file system: path -> content
    dirs,               \* extraction file system: the directories
    jobs,               \* the calls of extract_zip_file_recursive, by number
    created,            \* create_directory.py: the results of the calls made
    pointer_file_url    \* the pointer URL derived from args.url

dlvars == <<pc, args, honours, file, fileExists, retry_count, resume_header,
            body, reqLog, statusLog, download_succeeded, checksum,
            expected_hash, exit, initial, pointer_file, pointer_log>>

exvars == <<layout, files, dirs, jobs>>

\* The state of the tools run on their own.
toolvars == <<created, pointer_file_url>>

vars == <<dlvars, exvars, toolvars>>

\* ---------------------------------------------------------------- helpers
Min(a, b) == IF a < b THEN a ELSE b

IsPrefix(s, t) == Len(s) <= Len(t) /\ SubSeq(t, 1, Len(s)) = s

\* The remote payload: distinct bytes, so a duplicated or dropped byte shows.
Payload == [i \in 1..PayloadLen |-> i]

\* A destination file that is no prefix of the payload.
Garbage == <<0>>

\* ------------------------------------------------------------- downloader
NoRange == [has |-> FALSE, off |-> 0]

\* A Range header sent whether or not the file exists.
RangeAlways(exists, f, old) == [has |-> TRUE, off |-> Len(f)]

\* The Range header computed from the disk.
RangeFromDisk(exists, f, old) ==
    IF exists THEN [has |-> TRUE, off |-> Len(f)] ELSE old

\* The header kept from the previous attempt, never recomputed.
StaleHeader(exists, f, old) == old

\* The header for the next attempt, recomputed in the exception handler.
HeaderAfterError(exists, f, old) == RangeFromDisk(exists, f, old)

\* The server's answer to a request carrying header h.
ServerStatus(h) ==
    IF ~honours \/ ~h.has THEN HTTP_OK
    ELSE IF h.off < PayloadLen THEN HTTP_PARTIAL
    ELSE HTTP_RANGE_NOT_SATISFIABLE

ServerBody(h) ==
    IF ~honours \/ ~h.has THEN Payload
    ELSE SubSeq(Payload, h.off + 1, PayloadLen)

\* A loop that makes its first attempt whatever the budget.
BudgetOrFirstAttempt(count, max) == count = 0 \/ count < max

\* The while condition of the retry loop.
BudgetLeft(count, max) == count < max

\* The file as open(destination, mode) leaves it.
OpenTruncate(f) == <<>>

OpenAppend(f) == f

\* What the HTTPError handler does with a status: 416 is the success
\* sentinel; for any other status the bare raise leaves the function, because
\* a sibling except clause does not catch what a handler raises.
HandleAsRetry(status) == "retry"

HandleHTTPError(status) ==
    IF status = HTTP_RANGE_NOT_SATISFIABLE THEN "return_true" ELSE "raise"

IsSuccess(status) == status \in {HTTP_OK, HTTP_PARTIAL}

Request == [hdr |-> resume_header, size |-> Len(file), existed |-> fileExists]

DownloadInit ==
    /\ pc = "main_download"
    /\ retry_count' = 0
    /\ resume_header' = RangeFromDisk(fileExists, file, NoRange)
    /\ pc' = "dl_while"
    /\ UNCHANGED <<args, honours, file, fileExists, body, reqLog, statusLog,
                   download_succeeded, checksum, exit, expected_hash,
                   initial,
                   pointer_file, pointer_log>>
    /\ UNCHANGED <<exvars, toolvars>>

DlWhile ==
    /\ pc = "dl_while"
    /\ IF BudgetLeft(retry_count, args.max_retries)
       THEN /\ pc' = "dl_get"
            /\ UNCHANGED download_succeeded
       ELSE /\ pc' = "main_after_download"
            /\ download_succeeded' = "false"
    /\ UNCHANGED <<args, honours, file, fileExists, retry_count,
                   resume_header, body, reqLog, statusLog, checksum, exit,
                   expected_hash, initial,
                   pointer_file, pointer_log>>
    /\ UNCHANGED <<exvars, toolvars>>

\* requests.get raises a connection error or a timeout: no response.
DlGetTransportError ==
    /\ pc = "dl_get"
    /\ reqLog' = Append(reqLog, Request)
    /\ statusLog' = Append(statusLog, 0)
    /\ pc' = "dl_except"
    /\ UNCHANGED <<args, honours, file, fileExists, retry_count,
                   resume_header, body, download_succeeded, checksum, exit,
                   expected_hash, initial,
                   pointer_file, pointer_log>>
    /\ UNCHANGED <<exvars, toolvars>>

\* requests.get returns a response; raise_for_status decides.
DlGetResponse ==
    /\ pc = "dl_get"
    /\ reqLog' = Append(reqLog, Request)
    /\ \E status \in {ServerStatus(resume_header), HTTP_SERVER_ERROR} :
        /\ statusLog' = Append(statusLog, status)
        /\ IF IsSuccess(status)
           THEN /\ body' = ServerBody(resume_header)
                /\ pc' = "dl_open"
                /\ UNCHANGED <<download_succeeded, exit>>
           ELSE LET how == HandleHTTPError(status) IN
                /\ body' = <<>>
                /\ pc' = CASE how = "return_true" -> "main_after_download"
                           [] how = "raise" -> "done"
                           [] OTHER -> "dl_except"
                /\ download_succeeded' =
                        CASE how = "return_true" -> "true"
                          [] how = "raise" -> "raised"
                          [] OTHER -> download_succeeded
                /\ exit' = IF how = "raise" THEN "1" ELSE exit
    /\ UNCHANGED <<args, honours, file, fileExists, retry_count,
                   resume_header, checksum, expected_hash, initial,
                   pointer_file, pointer_log>>
    /\ UNCHANGED <<exvars, toolvars>>

DlOpen ==
    /\ pc = "dl_open"
    /\ fileExists' = TRUE
    /\ file' = OpenAppend(file)
    /\ pc' = "dl_iter"
    /\ UNCHANGED <<args, honours, retry_count, resume_header, body, reqLog,
                   statusLog, download_succeeded, checksum, exit,
                   expected_hash, initial,
                   pointer_file, pointer_log>>
    /\ UNCHANGED <<exvars, toolvars>>

DlChunk ==
    /\ pc = "dl_iter"
    /\ body # <<>>
    /\ LET n == Min(args.chunk_size, Len(body)) IN
        /\ file' = file \o SubSeq(body, 1, n)
        /\ body' = SubSeq(body, n + 1, Len(body))
    /\ UNCHANGED <<pc, args, honours, fileExists, retry_count, resume_header,
                   reqLog, statusLog, download_succeeded, checksum, exit,
                   expected_hash, initial,
                   pointer_file, pointer_log>>
    /\ UNCHANGED <<exvars, toolvars>>

\* iter_content raises a RequestException in mid-stream.
DlStreamError ==
    /\ pc = "dl_iter"
    /\ body # <<>>
    /\ body' = <<>>
    /\ pc' = "dl_except"
    /\ UNCHANGED <<args, honours, file, fileExists, retry_count,
                   resume_header, reqLog, statusLog, download_succeeded,
                   checksum, exit, expected_hash, initial,
                   pointer_file, pointer_log>>
    /\ UNCHANGED <<exvars, toolvars>>

DlStreamEnd ==
    /\ pc = "dl_iter"
    /\ body = <<>>
    /\ download_succeeded' = "true"
    /\ pc' = "main_after_download"
    /\ UNCHANGED <<args, honours, file, fileExists, retry_count,
                   resume_header, body, reqLog, statusLog, checksum, exit,
                   expected_hash, initial,
                   pointer_file, pointer_log>>
    /\ UNCHANGED <<exvars, toolvars>>

DlExcept ==
    /\ pc = "dl_except"
    /\ retry_count' = retry_count + 1
    /\ resume_header' = HeaderAfterError(fileExists, file, resume_header)
    /\ pc' = "dl_while"
    /\ UNCHANGED <<args, honours, file, fileExists, body, reqLog, statusLog,
                   download_succeeded, checksum, exit, expected_hash,
                   initial,
                   pointer_file, pointer_log>>
    /\ UNCHANGED <<exvars, toolvars>>

\* KeyboardInterrupt delivered while the downloader runs: it is no
\* RequestException, so it leaves the function; main logs it and returns.
DlInterrupt ==
    /\ pc \in {"dl_while", "dl_get", "dl_open", "dl_iter", "dl_except"}
    /\ body' = <<>>
    /\ download_succeeded' = "interrupted"
    /\ pc' = "done"
    /\ exit' = "0"
    /\ UNCHANGED <<args, honours, file, fileExists, retry_count,
                   resume_header, reqLog, statusLog, checksum, expected_hash,
                   initial,
                   pointer_file, pointer_log>>
    /\ UNCHANGED <<exvars, toolvars>>

\* --------------------------------------------------------------- verifier
\* The lowercase hexadecimal digits hexdigest() writes.
HexDigits == <<"0", "1", "2", "3", "4", "5", "6", "7",
               "8", "9", "a", "b", "c", "d", "e", "f">>

HexBase == 16

\* The same digits in upper case, as a pointer file may spell them.
UpperDigits == <<"0", "1", "2", "3", "4", "5", "6", "7",
                 "8", "9", "A", "B", "C", "D", "E", "F">>

\* sha256_hash: a collision-free digest in lowercase hexadecimal. The first
\* digit carries the length, every further digit one byte, counted down
\* from "f" so that the digests of the payload hold letters.
sha256_hash(data) ==
    [i \in 1..(Len(data) + 1) |->
        IF i = 1 THEN HexDigits[(Len(data) % HexBase) + 1]
        ELSE HexDigits[HexBase - (data[i - 1] % HexBase)]]

\* str.upper and str.lower on a sequence of tokens.
Upper(text) ==
    [i \in 1..Len(text) |->
        IF \E k \in 1..HexBase : HexDigits[k] = text[i]
        THEN UpperDigits[CHOOSE k \in 1..HexBase : HexDigits[k] = text[i]]
        ELSE text[i]]

Lower(text) ==
    [i \in 1..Len(text) |->
        IF \E k \in 1..HexBase : UpperDigits[k] = text[i]
        THEN HexDigits[CHOOSE k \in 1..HexBase : UpperDigits[k] = text[i]]
        ELSE text[i]]

\* A text is a sequence of tokens: "oid ", "sha256:", "version", "size",
\* "\n", "\r" or a hexadecimal digit.
\* str.split(sep): the pieces of the text between the separators, empty
\* pieces included.
Split(text, sep) ==
    LET cuts == {i \in 1..Len(text) : text[i] = sep}
        n == Cardinality(cuts)
        Cut(k) == IF k = 0 THEN 0
                  ELSE IF k = n + 1 THEN Len(text) + 1
                  ELSE CHOOSE i \in cuts :
                           Cardinality({j \in cuts : j <= i}) = k
    IN  [k \in 1..(n + 1) |-> SubSeq(text, Cut(k - 1) + 1, Cut(k) - 1)]

\* sep.join(pieces)
RECURSIVE Join(_, _)
Join(pieces, sep) ==
    IF pieces = <<>> THEN <<>>
    ELSE IF Len(pieces) = 1 THEN pieces[1]
    ELSE pieces[1] \o <<sep>> \o Join(Tail(pieces), sep)

\* The lines of a pointer file.
OidLine(hex) == <<"oid ", "sha256:">> \o hex

VersionLine == <<"version">>

SizeLine == <<"size">>

\* A line that holds a hash and does not begin with "oid sha256:".
MarkerLine(hex) == <<"sha256:">> \o hex

\* None, as the expected hash.
NoHash == [some |-> FALSE, val |-> <<>>]

\* line.startswith("oid sha256:")
StartsWithOid(line) ==
    Len(line) >= 2 /\ line[1] = "oid " /\ line[2] = "sha256:"

\* line.split("sha256:")[1]: the text between the first "sha256:" and the
\* next one, or the end of the line.
AfterMarker(line) ==
    LET marks == {i \in 1..Len(line) : line[i] = "sha256:"}
        first == CHOOSE i \in marks : \A k \in marks : i <= k
        later == {i \in marks : i > first}
        stop  == IF later = {} THEN Len(line) + 1
                 ELSE CHOOSE i \in later : \A k \in later : i <= k
    IN  SubSeq(line, first + 1, stop - 1)

\* An extraction that takes the first line holding "sha256:" anywhere.
ExtractFromAnyLine(bytes_data) ==
    LET lines == Split(bytes_data, "\n")
        hits == {i \in 1..Len(lines) :
                    \E k \in 1..Len(lines[i]) : lines[i][k] = "sha256:"}
    IN  IF hits = {} THEN NoHash
        ELSE [some |-> TRUE,
              val |-> AfterMarker(
                          lines[CHOOSE i \in hits : \A k \in hits : i <= k])]

\* extract_sha256_from_pointer_file: the token of the first line that starts
\* with "oid sha256:", or None. An empty line is falsy and yields None too.
extract_sha256_from_pointer_file(bytes_data) ==
    LET lines == Split(bytes_data, "\n")
        hits == {i \in 1..Len(lines) : StartsWithOid(lines[i])} IN
    IF hits = {} THEN NoHash
    ELSE [some |-> TRUE,
          val |-> AfterMarker(lines[CHOOSE i \in hits : \A k \in hits : i <= k])]

\* A comparison that takes an absent expected hash for a match.
HashEqualsOrAbsent(file_hash, expected) ==
    ~expected.some \/ expected.val = file_hash

\* file_hash == expected_hash, where expected_hash may be None.
HashEquals(file_hash, expected) == expected.some /\ expected.val = file_hash

\* The outcomes of the pointer request: no response, a success, an error
\* status.
PointerStatuses == {0, HTTP_OK, HTTP_SERVER_ERROR}

\* A verifier that takes whatever the request yields for the pointer file.
PointerFetchNeverFails(status) == FALSE

\* requests.get(pointer_file_url, timeout=10) raised, or raise_for_status
\* does.
PointerFetchFails(status) == status = 0 \/ ~IsSuccess(status)

\* The pointer files the hosting service may return.
PointerFor(data) ==
    Join(<<VersionLine, OidLine(sha256_hash(data)), SizeLine>>, "\n")

\* Pointer files without a hash line: no hash at all, the hash on a line
\* that does not begin with "oid sha256:", and the empty file (one empty
\* line).
PointersWithoutOid ==
    { Join(<<VersionLine, SizeLine>>, "\n"),
      Join(<<VersionLine, MarkerLine(sha256_hash(Payload)), SizeLine>>, "\n"),
      <<>> }

\* The pointer file of the payload with its hash spelled in upper case.
UpperPointer ==
    Join(<<VersionLine, OidLine(Upper(sha256_hash(Payload))), SizeLine>>, "\n")

Pointers ==
    { PointerFor(Payload), PointerFor(Garbage), UpperPointer }
        \cup PointersWithoutOid

\* -------------------------------------------------------------- extractor
\* A path is a sequence of components; a component is a base name and an
\* extension ("zip" or none).
Comp(b, x) == [b |-> b, x |-> x]

\* The destination of the download, also the top-level container.
Dest == <<Comp("d", "zip")>>

\* destination.replace(".zip", "")
StripZip(p) ==
    [i \in 1..Len(p) |-> [p[i] EXCEPT !.x = IF @ = "zip" THEN "" ELSE @]]

\* item.endswith(".zip")
EndsWithZip(p) == p[Len(p)].x = "zip"

\* os.path.splitext(item)[0]
SplitExt(p) == [p EXCEPT ![Len(p)].x = ""]

Parent(p) == SubSeq(p, 1, Len(p) - 1)

Ancestors(p) == {SubSeq(p, 1, k) : k \in 1..(Len(p) - 1)}

\* Container entries: a plain file, a nested container (child c), a file
\* that passes is_zipfile and that ZipFile rejects, or a directory.
FileEntry(b) == [name |-> <<Comp(b, "")>>, kind |-> "data", c |-> 0]

ZipEntry(b, c) == [name |-> <<Comp(b, "zip")>>, kind |-> "zip", c |-> c]

BadZipEntry(b) == [name |-> <<Comp(b, "zip")>>, kind |-> "bad", c |-> 0]

\* The container trees explored. A chain nests one container per level down
\* to level depth; container k is the one at level k. A fork holds a corrupt
\* container a.zip, a sound one b.zip (container 1) and a plain file.
ChainLayout(depth, zipFirst) ==
    [kind |-> "chain", depth |-> depth, zipFirst |-> zipFirst]

ForkLayout == [kind |-> "fork", depth |-> 1, zipFirst |-> TRUE]

NoLayout == [kind |-> "none", depth |-> 0, zipFirst |-> TRUE]

\* A corrupt container a.zip, a plain file b and a sound container b.zip
\* (container 1), whose target directory d/b is taken by the file.
ClashLayout == [kind |-> "clash", depth |-> 1, zipFirst |-> TRUE]

\* A container a.zip (container 1, holding b.zip, container 2) next to an
\* entry a/b.zip (container 3): a.zip is extracted into the directory a.
OverlapLayout == [kind |-> "overlap", depth |-> 2, zipFirst |-> TRUE]

\* An entry whose name has a directory part.
PathZipEntry(dir, b, c) ==
    [name |-> <<Comp(dir, ""), Comp(b, "zip")>>, kind |-> "zip", c |-> c]

\* zip_ref.infolist() of container c; namelist() is its names, in order.
Entries(L, c) ==
    CASE L.kind = "chain" ->
            IF c < L.depth
            THEN IF L.zipFirst
                 THEN <<ZipEntry("n", c + 1), FileEntry("f")>>
                 ELSE <<FileEntry("f"), ZipEntry("n", c + 1)>>
            ELSE <<FileEntry("f")>>
      [] L.kind = "fork" ->
            IF c = 0
            THEN <<BadZipEntry("a"), ZipEntry("b", 1), FileEntry("f")>>
            ELSE <<FileEntry("g")>>
      [] L.kind = "clash" ->
            IF c = 0
            THEN <<BadZipEntry("a"), FileEntry("b"), ZipEntry("b", 1)>>
            ELSE <<FileEntry("g")>>
      [] L.kind = "overlap" ->
            CASE c = 0 -> <<ZipEntry("a", 1), PathZipEntry("a", "b", 3)>>
              [] c = 1 -> <<ZipEntry("b", 2)>>
              [] c = 2 -> <<FileEntry("x")>>
              [] OTHER -> <<FileEntry("y")>>
      [] OTHER -> <<>>

\* os.path.exists
Exists(p) == p \in DOMAIN files \/ p \in dirs

\* zipfile.is_zipfile
IsZipFile(p) == p \in DOMAIN files /\ files[p].kind \in {"zip", "bad"}

\* os.makedirs(p, exist_ok=True) succeeds unless p or an ancestor is a file.
CanMakeDirs(p) == \A q \in Ancestors(p) \cup {p} : q \notin DOMAIN files

WithDirs(d, p) == d \cup Ancestors(p) \cup {p}

Put(f, p, v) == [q \in DOMAIN f \cup {p} |-> IF q = p THEN v ELSE f[q]]

Remove(f, p) == [q \in DOMAIN f \ {p} |-> f[q]]

\* current_recursion_depth += 1 at the start of every call.
IncrementDepth(d) == d + 1

\* The depth argument extract() passes to the nested call.
SubmitDepth(d) == d + 1

\* The assertion extract() makes before it schedules a nested container.
DepthAllowed(d, max) == d <= max

\* A call that deletes its container at every depth.
DeletesAtAnyDepth(d) == d >= 0

\* The condition under which the extracted container is deleted.
DeletesZip(d) == d >= 1

\* The value main passes as current_recursion_depth.
DepthSentinel == 0 - 1

Finished(j) == jobs[j].pc \in {"ok", "err"}

\* A call that does not wait for what it submitted.
NoneAwaited(futs) == TRUE

\* A wait that is never told of a finished future.
NeverCompleted(futs) == FALSE

\* as_completed(futures) has yielded every future; leaving the with block of
\* the executor waits for them likewise.
AllDone(futs) == \A f \in futs : Finished(f)

NewJob(zip, to, depth, parent) ==
    [zip |-> zip, to |-> to, depth |-> depth, parent |-> parent,
     pc |-> "start", cont |-> 0, idx |-> 0, scan |-> 0, futures |-> {},
     err |-> "", touched |-> {}, track |-> FALSE, pbar |-> 0]

\* The top-level call: main passes its track_extraction flag; every nested
\* call is submitted with False.
TopJob(track_extraction) ==
    [NewJob(Dest, StripZip(Dest), DepthSentinel, 0)
        EXCEPT !.track = track_extraction]

Fail(j, kind) == [jobs EXCEPT ![j].pc = "err", ![j].err = kind]

\* A call that does not look for its container before it begins.
ContainerAssumed(zip) == TRUE

\* os.path.exists(absolute_zip_file_path), checked before anything is made.
ContainerFound(zip) == Exists(zip)

\* touched collects the paths the call has created, written or deleted.
\* The call starts: depth incremented, the container looked up, the target
\* directory ensured (create_directory).
JobStart(j) ==
    /\ jobs[j].pc = "start"
    /\ LET d == IncrementDepth(jobs[j].depth)
           to == jobs[j].to
       IN IF ~ContainerFound(jobs[j].zip)
          THEN /\ jobs' = [Fail(j, "FileNotFoundError") EXCEPT ![j].depth = d]
               /\ UNCHANGED dirs
          ELSE IF Exists(to)
          THEN /\ jobs' = [jobs EXCEPT ![j].depth = d, ![j].pc = "open"]
               /\ UNCHANGED dirs
          ELSE IF CanMakeDirs(to)
          THEN /\ jobs' = [jobs EXCEPT ![j].depth = d, ![j].pc = "open",
                                            ![j].touched = @ \cup {to}]
               /\ dirs' = WithDirs(dirs, to)
          ELSE /\ jobs' = [Fail(j, "OSError") EXCEPT ![j].depth = d]
               /\ UNCHANGED dirs
    /\ UNCHANGED <<layout, files>>

\* zipfile.ZipFile(path, "r") and the entry list.
JobOpen(j) ==
    /\ jobs[j].pc = "open"
    /\ LET zip == jobs[j].zip IN
       IF zip \in dirs THEN jobs' = Fail(j, "OSError")
       ELSE IF zip \notin DOMAIN files THEN jobs' = Fail(j, "FileNotFoundError")
       ELSE IF files[zip].kind # "zip" THEN jobs' = Fail(j, "BadZipFile")
       ELSE jobs' = [jobs EXCEPT
                ![j].cont = files[zip].c,
                ![j].idx = 1,
                ![j].pc = IF Entries(layout, files[zip].c) = <<>>
                          THEN "remove" ELSE "entry"]
    /\ UNCHANGED <<layout, files, dirs>>

\* extract(): zip_ref.extract(file_info, extract_to) of the current entry,
\* as the file system and the calls it leaves.
ExtractEntryEffect(j) ==
    LET e == Entries(layout, jobs[j].cont)[jobs[j].idx]
        target == jobs[j].to \o e.name
        scanning == [jobs EXCEPT ![j].pc = "scan", ![j].scan = 1,
                                 ![j].futures = {},
                                 ![j].touched = @ \cup {target}]
        failed == [files |-> files, dirs |-> dirs, jobs |-> Fail(j, "OSError")]
    IN IF e.kind = "dir"
       THEN IF CanMakeDirs(target)
            THEN [files |-> files, dirs |-> WithDirs(dirs, target),
                  jobs |-> scanning]
            ELSE failed
       ELSE IF CanMakeDirs(Parent(target)) /\ target \notin dirs
            THEN [files |-> Put(files, target, [kind |-> e.kind, c |-> e.c]),
                  dirs |-> WithDirs(dirs, Parent(target)),
                  jobs |-> scanning]
            ELSE failed

\* A tracked loop that shows the progress and extracts nothing.
ProgressOnly(j) ==
    [files |-> files, dirs |-> dirs,
     jobs |-> [jobs EXCEPT ![j].pbar = @ + 1, ![j].pc = "scan",
                           ![j].scan = 1, ![j].futures = {}]]

\* The loop body under `with tqdm(total=total_files) as pbar`: the bar is
\* advanced, then extract() is called.
TrackedEntry(j) ==
    LET r == ExtractEntryEffect(j)
    IN  [r EXCEPT !.jobs = [@ EXCEPT ![j].pbar = @ + 1]]

\* The loop body of the else branch: extract() is called.
PlainEntry(j) == ExtractEntryEffect(j)

\* if track_extraction: ... else: ...
LoopBody(j, track_extraction) ==
    IF track_extraction THEN TrackedEntry(j) ELSE PlainEntry(j)

JobExtractEntry(j) ==
    /\ jobs[j].pc = "entry"
    /\ LET r == LoopBody(j, jobs[j].track)
       IN /\ files' = r.files
          /\ dirs' = r.dirs
          /\ jobs' = r.jobs
    /\ UNCHANGED layout

\* extract(): one turn of the loop over zip_ref.namelist(); a nested
\* container found on disk is handed to the executor.
JobScan(j) ==
    /\ jobs[j].pc = "scan"
    /\ LET names == Entries(layout, jobs[j].cont)
           item == names[jobs[j].scan].name
           item_path == jobs[j].to \o item
           nested_extract_to == jobs[j].to \o SplitExt(item)
           after == IF jobs[j].scan = Len(names) THEN "wait" ELSE "scan"
           child == Len(jobs) + 1
       IN IF EndsWithZip(item) /\ IsZipFile(item_path)
          THEN IF ~DepthAllowed(jobs[j].depth, args.max_recursion_depth)
               THEN /\ jobs' = [jobs EXCEPT ![j].pc = "raise",
                                            ![j].err = "AssertionError"]
                    /\ UNCHANGED dirs
               ELSE IF ~CanMakeDirs(nested_extract_to)
               THEN /\ jobs' = [jobs EXCEPT ![j].pc = "raise",
                                            ![j].err = "OSError"]
                    /\ UNCHANGED dirs
               ELSE /\ dirs' = WithDirs(dirs, nested_extract_to)
                    /\ jobs' = Append(
                            [jobs EXCEPT ![j].pc = after,
                                         ![j].scan = @ + 1,
                                         ![j].futures = @ \cup {child},
                                         ![j].touched =
                                             @ \cup {nested_extract_to}],
                            NewJob(item_path, nested_extract_to,
                                   SubmitDepth(jobs[j].depth), j))
          ELSE /\ jobs' = [jobs EXCEPT ![j].pc = after, ![j].scan = @ + 1]
               /\ UNCHANGED dirs
    /\ UNCHANGED <<layout, files>>

\* extract(): as_completed; every result is taken, an error is logged.
JobWait(j) ==
    /\ jobs[j].pc = "wait"
    /\ AllDone(jobs[j].futures)
    /\ jobs' = [jobs EXCEPT
            ![j].idx = @ + 1,
            ![j].pc = IF jobs[j].idx = Len(Entries(layout, jobs[j].cont))
                      THEN "remove" ELSE "entry"]
    /\ UNCHANGED <<layout, files, dirs>>

\* extract(): an exception leaves the with block of the executor, which
\* waits for the submitted futures; then the call fails.
JobRaise(j) ==
    /\ jobs[j].pc = "raise"
    /\ AllDone(jobs[j].futures)
    /\ jobs' = [jobs EXCEPT ![j].pc = "err"]
    /\ UNCHANGED <<layout, files, dirs>>

\* The end of the call: a nested container is deleted.
JobRemove(j) ==
    /\ jobs[j].pc = "remove"
    /\ IF DeletesZip(jobs[j].depth)
       THEN IF jobs[j].zip \in DOMAIN files
            THEN /\ files' = Remove(files, jobs[j].zip)
                 /\ jobs' = [jobs EXCEPT ![j].pc = "ok",
                                         ![j].touched = @ \cup {jobs[j].zip}]
            ELSE /\ jobs' = Fail(j, "FileNotFoundError")
                 /\ UNCHANGED files
       ELSE /\ jobs' = [jobs EXCEPT ![j].pc = "ok"]
            /\ UNCHANGED files
    /\ UNCHANGED <<layout, dirs>>

\* --------------------------------------------------------------- pipeline
Layouts ==
    {ChainLayout(d, z) : d \in 0..MaxNesting, z \in BOOLEAN}
        \cup {ForkLayout, ClashLayout}

\* The containers the pipeline is run on: one nested container, a corrupt
\* nested container, and a container whose extraction fails at the top.
PipelineLayouts == {ChainLayout(1, TRUE), ForkLayout, ClashLayout}

\* How main ends for each outcome of the pipeline: a False from the
\* downloader skips the `if download_succeeded` block and main returns; a
\* False from perform_checksum and an error of the extractor are exceptions
\* that reach `except Exception`.
MainEnding(outcome) ==
    IF outcome \in {"checksum_failed", "extraction_failed"}
    THEN "exception" ELSE "return"

\* The exit status of the process: sys.exit with a message is status 1, a
\* return of main is status 0.
ExitStatus(ending) == IF ending = "exception" THEN "1" ELSE "0"

PipelineExit(outcome) == ExitStatus(MainEnding(outcome))

\* download.py main: if download_succeeded.
MainAfterDownload ==
    /\ pc = "main_after_download"
    /\ IF download_succeeded = "true"
       THEN /\ pc' = "main_verify"
            /\ UNCHANGED exit
       ELSE /\ pc' = "done"
            /\ exit' = PipelineExit("download_failed")
    /\ UNCHANGED <<args, honours, file, fileExists, retry_count,
                   resume_header, body, reqLog, statusLog,
                   download_succeeded, checksum, expected_hash, initial,
                   pointer_file, pointer_log>>
    /\ UNCHANGED <<exvars, toolvars>>

\* perform_checksum, calculate_file_hash: the file cannot be read. The error
\* reaches main's except clause, which exits with a message.
MainChecksumError ==
    /\ pc = "main_verify"
    /\ checksum' = "raised"
    /\ pc' = "done"
    /\ exit' = "1"
    /\ UNCHANGED <<args, honours, file, fileExists, retry_count,
                   resume_header, body, reqLog, statusLog,
                   download_succeeded, expected_hash, initial,
                   pointer_file, pointer_log>>
    /\ UNCHANGED <<exvars, toolvars>>

\* perform_checksum, calculate_file_hash: the file is read and hashed.
MainHash ==
    /\ pc = "main_verify"
    /\ fileExists
    /\ pc' = "main_pointer"
    /\ UNCHANGED <<args, honours, file, fileExists, retry_count,
                   resume_header, body, reqLog, statusLog,
                   download_succeeded, checksum, expected_hash, exit,
                   initial, pointer_file, pointer_log>>
    /\ UNCHANGED <<exvars, toolvars>>

\* perform_checksum: requests.get raises (no response within the timeout, a
\* connection error) or raise_for_status does; nothing catches it before
\* main's except clause.
MainPointerError ==
    /\ pc = "main_pointer"
    /\ \E status \in PointerStatuses :
        /\ PointerFetchFails(status)
        /\ pointer_log' = Append(pointer_log, status)
    /\ checksum' = "raised"
    /\ pc' = "done"
    /\ exit' = "1"
    /\ UNCHANGED <<args, honours, file, fileExists, retry_count,
                   resume_header, body, reqLog, statusLog,
                   download_succeeded, expected_hash, initial,
                   pointer_file>>
    /\ UNCHANGED <<exvars, toolvars>>

\* A main that goes on whatever perform_checksum returned.
IgnoresMismatch(matched, unzip) == IF unzip THEN "extract" ELSE "return"

\* A main that extracts whenever the checksum matched.
ExtractsUnasked(matched, unzip) == IF matched THEN "extract" ELSE "raise"

\* main after perform_checksum: on False `raise Exception`, on True the
\* extraction `if unzip`, and else the end of main.
AfterChecksum(matched, unzip) ==
    IF ~matched THEN "raise" ELSE IF unzip THEN "extract" ELSE "return"

\* perform_checksum returns; on False main raises, on True it goes on.
MainChecksum ==
    /\ pc = "main_pointer"
    /\ \E status \in PointerStatuses :
        /\ ~PointerFetchFails(status)
        /\ pointer_log' = Append(pointer_log, status)
    /\ \E pointer \in Pointers :
        LET expected == extract_sha256_from_pointer_file(pointer)
            file_hash == sha256_hash(file)
        IN /\ pointer_file' = pointer
           /\ expected_hash' = expected
           /\ checksum' = IF HashEquals(file_hash, expected)
                          THEN "true" ELSE "false"
           /\ LET next == AfterChecksum(HashEquals(file_hash, expected),
                                        args.unzip)
              IN /\ pc' = IF next = "extract" THEN "main_extract" ELSE "done"
                 /\ exit' = CASE next = "raise" ->
                                     PipelineExit("checksum_failed")
                              [] next = "return" -> PipelineExit("success")
                              [] OTHER -> exit
    /\ UNCHANGED <<args, honours, file, fileExists, retry_count,
                   resume_header, body, reqLog, statusLog,
                   download_succeeded, initial>>
    /\ UNCHANGED <<exvars, toolvars>>

\* main calls extract_zip_file_recursive on the downloaded file.
MainExtract ==
    /\ pc = "main_extract"
    /\ \E L \in PipelineLayouts : layout' = L
    /\ files' = (Dest :> [kind |-> "zip", c |-> 0])
    /\ dirs' = {}
    /\ \E track_extraction \in BOOLEAN :
           jobs' = <<TopJob(track_extraction)>>
    /\ pc' = "main_extracting"
    /\ UNCHANGED <<args, honours, file, fileExists, retry_count,
                   resume_header, body, reqLog, statusLog,
                   download_succeeded, checksum, exit, expected_hash,
                   initial,
                   pointer_file, pointer_log>>
    /\ UNCHANGED toolvars

\* The top-level call returns or raises.
MainExtractReturn ==
    /\ pc = "main_extracting"
    /\ Finished(1)
    /\ pc' = "done"
    /\ exit' = IF jobs[1].pc = "ok" THEN PipelineExit("success")
                ELSE PipelineExit("extraction_failed")
    /\ UNCHANGED <<args, honours, file, fileExists, retry_count,
                   resume_header, body, reqLog, statusLog,
                   download_succeeded, checksum, expected_hash, initial,
                   pointer_file, pointer_log>>
    /\ UNCHANGED <<exvars, toolvars>>

Start == \E j \in DOMAIN jobs : JobStart(j) /\ UNCHANGED <<dlvars, toolvars>>

Open == \E j \in DOMAIN jobs : JobOpen(j) /\ UNCHANGED <<dlvars, toolvars>>

ExtractEntry == \E j \in DOMAIN jobs : JobExtractEntry(j) /\ UNCHANGED <<dlvars, toolvars>>

Scan == \E j \in DOMAIN jobs : JobScan(j) /\ UNCHANGED <<dlvars, toolvars>>

Wait == \E j \in DOMAIN jobs : JobWait(j) /\ UNCHANGED <<dlvars, toolvars>>

Raise == \E j \in DOMAIN jobs : JobRaise(j) /\ UNCHANGED <<dlvars, toolvars>>

RemoveZip == \E j \in DOMAIN jobs : JobRemove(j) /\ UNCHANGED <<dlvars, toolvars>>

Extractor ==
    \/ Start
    \/ Open
    \/ ExtractEntry
    \/ Scan
    \/ Wait
    \/ Raise
    \/ RemoveZip

InitialFiles ==
    {SubSeq(Payload, 1, n) : n \in 0..PayloadLen} \cup {Garbage}

Init ==
    /\ pc = "main_download"
    /\ args \in [max_retries : MinRetriesArg..MaxRetriesArg,
                 chunk_size : 1..MaxChunkSize,
                 unzip : BOOLEAN,
                 max_recursion_depth : 0..MaxDepthArg]
    /\ honours \in BOOLEAN
    /\ fileExists \in BOOLEAN
    /\ file \in (IF fileExists THEN InitialFiles ELSE {<<>>})
    /\ retry_count = 0
    /\ resume_header = NoRange
    /\ body = <<>>
    /\ reqLog = <<>>
    /\ statusLog = <<>>
    /\ download_succeeded = "none"
    /\ checksum = "none"
    /\ expected_hash = NoHash
    /\ exit = "none"
    /\ initial = [exists |-> fileExists, file |-> file]
    /\ pointer_file = <<>>
    /\ pointer_log = <<>>
    /\ created = <<>>
    /\ pointer_file_url = <<>>
    /\ layout = NoLayout
    /\ files = <<>>
    /\ dirs = {}
    /\ jobs = <<>>

Next ==
    \/ DownloadInit
    \/ DlWhile
    \/ DlGetTransportError
    \/ DlGetResponse
    \/ DlOpen
    \/ DlChunk
    \/ DlStreamError
    \/ DlStreamEnd
    \/ DlExcept
    \/ DlInterrupt
    \/ MainAfterDownload
    \/ MainChecksumError
    \/ MainHash
    \/ MainPointerError
    \/ MainChecksum
    \/ MainExtract
    \/ MainExtractReturn
    \/ Extractor

Spec == Init /\ [][Next]_vars

\* ------------------------------------------------ unzip_file.py on its own
\* unzip_file.py main: the container named on the command line may be missing.
UnzipLayouts == Layouts \cup {ClashLayout, OverlapLayout}

InitUnzip ==
    /\ pc = "unzip_main"
    /\ args \in [max_recursion_depth : 0..MaxDepthArg]
    /\ layout \in UnzipLayouts
    /\ files \in {(Dest :> [kind |-> "zip", c |-> 0]), <<>>}
    /\ dirs = {}
    /\ jobs = <<>>
    /\ honours = FALSE
    /\ fileExists = FALSE
    /\ file = <<>>
    /\ retry_count = 0
    /\ resume_header = NoRange
    /\ body = <<>>
    /\ reqLog = <<>>
    /\ statusLog = <<>>
    /\ download_succeeded = "none"
    /\ checksum = "none"
    /\ expected_hash = NoHash
    /\ exit = "none"
    /\ initial = [exists |-> FALSE, file |-> <<>>]
    /\ pointer_file = <<>>
    /\ pointer_log = <<>>
    /\ created = <<>>
    /\ pointer_file_url = <<>>

UnzipMain ==
    /\ pc = "unzip_main"
    /\ \E track_extraction \in BOOLEAN :
           jobs' = <<TopJob(track_extraction)>>
    /\ pc' = "unzip_extracting"
    /\ UNCHANGED <<args, honours, file, fileExists, retry_count,
                   resume_header, body, reqLog, statusLog,
                   download_succeeded, checksum, expected_hash, exit,
                   initial,
                   pointer_file, pointer_log>>
    /\ UNCHANGED <<layout, files, dirs>>
    /\ UNCHANGED toolvars

\* The call returns, or its exception ends the interpreter.
UnzipReturn ==
    /\ pc = "unzip_extracting"
    /\ Finished(1)
    /\ pc' = "done"
    /\ exit' = IF jobs[1].pc = "ok" THEN "0" ELSE "1"
    /\ UNCHANGED <<args, honours, file, fileExists, retry_count,
                   resume_header, body, reqLog, statusLog,
                   download_succeeded, checksum, expected_hash, initial,
                   pointer_file, pointer_log>>
    /\ UNCHANGED <<exvars, toolvars>>

NextUnzip ==
    \/ UnzipMain
    \/ UnzipReturn
    \/ Start
    \/ Open
    \/ ExtractEntry
    \/ Scan
    \/ Wait
    \/ Raise
    \/ RemoveZip

SpecUnzip == InitUnzip /\ [][NextUnzip]_vars

\* The same program with its threads scheduled fairly: while some call of
\* the extractor can take a step, one is taken. Every extract() makes its
\* own ThreadPoolExecutor, so a submitted call never waits for a free
\* worker of a pool its callers hold.
SpecUnzipFair == InitUnzip /\ [][NextUnzip]_vars /\ WF_vars(Extractor)

\* ------------------------------------------- create_directory.py on its own
\* The longest destination path and the number of calls made in sequence.
MaxPathLen == 3

MaxCalls == 2

\* The pipeline and the extractor at rest, for the tools run on their own.
PipelineIdle ==
    /\ honours = FALSE
    /\ fileExists = FALSE
    /\ file = <<>>
    /\ retry_count = 0
    /\ resume_header = NoRange
    /\ body = <<>>
    /\ reqLog = <<>>
    /\ statusLog = <<>>
    /\ download_succeeded = "none"
    /\ checksum = "none"
    /\ expected_hash = NoHash
    /\ exit = "none"
    /\ initial = [exists |-> FALSE, file |-> <<>>]
    /\ pointer_file = <<>>
    /\ pointer_log = <<>>
    /\ layout = NoLayout
    /\ jobs = <<>>

PathsUpTo(n) ==
    UNION {[1..k -> {Comp("p", ""), Comp("q", "")}] : k \in 1..n}

\* directory = absolute_path if is_directory else os.path.dirname(...); the
\* empty path is the working directory.
TargetDirectory(destination, is_directory) ==
    IF is_directory THEN destination ELSE Parent(destination)

\* A test that never finds the directory.
DirectoryNeverExists(p) == FALSE

\* os.path.exists(directory)
DirectoryExists(p) == p = <<>> \/ Exists(p)

\* os.makedirs(directory), without exist_ok: it fails on an existing path and
\* below a regular file.
MakeDirsFails(p) == p = <<>> \/ Exists(p) \/ ~CanMakeDirs(p)

\* The file systems a call may find: directories closed under ancestors and
\* at most one regular file.
InitialTrees ==
    {t \in [d : SUBSET PathsUpTo(MaxPathLen - 1),
            f : {{}} \cup {{p} : p \in PathsUpTo(MaxPathLen - 1)}] :
        /\ \A p \in t.d : Ancestors(p) \subseteq t.d
        /\ \A p \in t.f : p \notin t.d /\ Ancestors(p) \subseteq t.d}

InitMkdir ==
    /\ pc = "cd_main"
    /\ args \in [destination : PathsUpTo(MaxPathLen), is_directory : BOOLEAN]
    /\ \E t \in InitialTrees :
        /\ dirs = t.d
        /\ files = [p \in t.f |-> [kind |-> "data", c |-> 0]]
    /\ created = <<>>
    /\ pointer_file_url = <<>>
    /\ PipelineIdle

\* create_directory(destination, is_directory): the result is appended to
\* created; an error of os.makedirs is logged and raised again.
CreateDirectory ==
    /\ pc = "cd_main"
    /\ Len(created) < MaxCalls
    /\ LET directory == TargetDirectory(args.destination, args.is_directory)
       IN IF DirectoryExists(directory)
          THEN /\ created' = Append(created, "false")
               /\ UNCHANGED <<dirs, pc>>
          ELSE IF MakeDirsFails(directory)
          THEN /\ created' = Append(created, "raised")
               /\ pc' = "done"
               /\ UNCHANGED dirs
          ELSE /\ created' = Append(created, "true")
               /\ dirs' = WithDirs(dirs, directory)
               /\ UNCHANGED pc
    /\ UNCHANGED <<args, honours, file, fileExists, retry_count,
                   resume_header, body, reqLog, statusLog,
                   download_succeeded, checksum, expected_hash, exit,
                   initial, pointer_file, pointer_log>>
    /\ UNCHANGED <<layout, files, jobs, pointer_file_url>>

NextMkdir == CreateDirectory

SpecMkdir == InitMkdir /\ [][NextMkdir]_vars

\* ---------------------------------------------- perform_checksum on its own
MaxLines == 3

\* The line ends a pointer file may carry before the "\n": none, or the
\* "\r" of a CRLF line end.
LineEnds == { <<>>, <<"\r">> }

\* The lines of the pointer files: a version line, a hash line of the
\* payload, a hash line of another file, a hash on a line that does not
\* begin with "oid sha256:", each with either line end, and the empty line.
PointerLines ==
    { line \o end :
        line \in {VersionLine, OidLine(sha256_hash(Payload)),
                  OidLine(sha256_hash(Garbage)),
                  MarkerLine(sha256_hash(Payload))},
        end \in LineEnds } \cup { <<>> }

\* response.content: up to MaxLines lines joined by "\n".
PointerTexts ==
    { Join(lines, "\n") :
        lines \in UNION {[1..k -> PointerLines] : k \in 1..MaxLines} }

\* A file that is taken to be readable whether it is there or not.
ReadableAssumed(exists) == TRUE

\* open(file_path, "rb") succeeds; a missing file stands for every file that
\* cannot be opened or read.
Readable(exists) == exists

\* checksum.py main calls perform_checksum on the complete payload, or on a
\* path that cannot be read.
InitPointer ==
    /\ pc = "ck_hash"
    /\ args = [file_path |-> Dest]
    /\ honours = FALSE
    /\ fileExists \in BOOLEAN
    /\ file = (IF fileExists THEN Payload ELSE <<>>)
    /\ retry_count = 0
    /\ resume_header = NoRange
    /\ body = <<>>
    /\ reqLog = <<>>
    /\ statusLog = <<>>
    /\ download_succeeded = "none"
    /\ checksum = "none"
    /\ expected_hash = NoHash
    /\ exit = "none"
    /\ initial = [exists |-> fileExists, file |-> file]
    /\ pointer_file = <<>>
    /\ pointer_log = <<>>
    /\ created = <<>>
    /\ pointer_file_url = <<>>
    /\ layout = NoLayout
    /\ files = <<>>
    /\ dirs = {}
    /\ jobs = <<>>

\* file_hash = calculate_file_hash(file_path): the file is opened, read and
\* hashed; an error of open or read leaves perform_checksum.
ChecksumHash ==
    /\ pc = "ck_hash"
    /\ IF Readable(fileExists)
       THEN /\ pc' = "ck_fetch"
            /\ UNCHANGED <<checksum, exit>>
       ELSE /\ pc' = "raised"
            /\ checksum' = "OSError"
            /\ exit' = "1"
    /\ UNCHANGED <<args, honours, file, fileExists, retry_count,
                   resume_header, body, reqLog, statusLog,
                   download_succeeded, expected_hash, initial,
                   pointer_file, pointer_log>>
    /\ UNCHANGED <<exvars, toolvars>>

\* requests.get(pointer_file_url, timeout=10); raise_for_status();
\* pointer_file = response.content
ChecksumFetch ==
    /\ pc = "ck_fetch"
    /\ \E status \in PointerStatuses :
        /\ pointer_log' = Append(pointer_log, status)
        /\ IF PointerFetchFails(status)
           THEN /\ pc' = "raised"
                /\ checksum' = "RequestException"
                /\ exit' = "1"
                /\ UNCHANGED pointer_file
           ELSE /\ pc' = "ck_extract"
                /\ pointer_file' \in PointerTexts
                /\ UNCHANGED <<checksum, exit>>
    /\ UNCHANGED <<args, honours, file, fileExists, retry_count,
                   resume_header, body, reqLog, statusLog,
                   download_succeeded, expected_hash, initial>>
    /\ UNCHANGED <<exvars, toolvars>>

\* expected_hash = extract_sha256_from_pointer_file(bytes_data=pointer_file);
\* return file_hash == expected_hash
ChecksumExtract ==
    /\ pc = "ck_extract"
    /\ expected_hash' = extract_sha256_from_pointer_file(pointer_file)
    /\ checksum' = IF HashEquals(sha256_hash(file), expected_hash')
                   THEN "true" ELSE "false"
    /\ pc' = "done"
    /\ exit' = "0"
    /\ UNCHANGED <<args, honours, file, fileExists, retry_count,
                   resume_header, body, reqLog, statusLog,
                   download_succeeded, initial, pointer_file, pointer_log>>
    /\ UNCHANGED <<exvars, toolvars>>

NextPointer ==
    \/ ChecksumHash
    \/ ChecksumFetch
    \/ ChecksumExtract

SpecPointer == InitPointer /\ [][NextPointer]_vars

\* -------------------------------------------------- the pointer file's URL
MaxWords == 1

\* A URL is a text of tokens: the scheme "https://", the separators "/" and
\* "?", and words. The text "resolve" occurs in a URL as the word "resolve"
\* only, alone or next to other words of a name.
Words == {"x", "main", "resolve"}

\* The names a host, a repository, a revision, a file or a query may have.
Names == UNION {[1..k -> Words] : k \in 1..MaxWords}

\* https://<host>/<repository>/resolve/<revision>/<file>, with or without
\* a query string.
ContentUrl(host, repository, revision, name, query) ==
    <<"https://">> \o host \o <<"/">> \o repository \o <<"/", "resolve", "/">>
        \o revision \o <<"/">> \o name
        \o (IF query = <<>> THEN <<>> ELSE <<"?">> \o query)

ContentUrls ==
    { ContentUrl(host, repository, revision, name, query) :
        host \in Names, repository \in Names, revision \in Names,
        name \in Names, query \in Names \cup {<<>>} }

\* str.replace(old, new): every occurrence is replaced.
Replace(text, old, new) ==
    [i \in 1..Len(text) |-> IF text[i] = old THEN new ELSE text[i]]

\* main is called with the URL of the content.
InitUrl ==
    /\ pc = "main_url"
    /\ args \in [url : ContentUrls]
    /\ PipelineIdle
    /\ files = <<>>
    /\ dirs = {}
    /\ created = <<>>
    /\ pointer_file_url = <<>>

\* pointer_file_url = url.replace("resolve", "raw").split("?")[0]
DerivePointerUrl ==
    /\ pc = "main_url"
    /\ pointer_file_url' = Split(Replace(args.url, "resolve", "raw"), "?")[1]
    /\ pc' = "main_download"
    /\ UNCHANGED <<args, honours, file, fileExists, retry_count,
                   resume_header, body, reqLog, statusLog,
                   download_succeeded, checksum, expected_hash, exit,
                   initial, pointer_file, pointer_log>>
    /\ UNCHANGED <<exvars, created>>

NextUrl == DerivePointerUrl

SpecUrl == InitUrl /\ [][NextUrl]_vars

\* ------------------------------------------------------------- properties
Last(s) == s[Len(s)]

\* A status that is neither a success nor 416.
IsErrorStatus(status) ==
    status # 0 /\ ~IsSuccess(status) /\ status # HTTP_RANGE_NOT_SATISFIABLE

\* No request so far was answered with a success or with 416.
AllAttemptsFailed ==
    \A i \in DOMAIN statusLog : statusLog[i] = 0 \/ IsErrorStatus(statusLog[i])

Got416 ==
    statusLog # <<>> /\ Last(statusLog) = HTTP_RANGE_NOT_SATISFIABLE

\* The plain file of the container at level k of a chain, once extracted.
ChainFile(k) ==
    StripZip(Dest) \o [i \in 1..k |-> Comp("n", "")] \o <<Comp("f", "")>>

\* C1: the extractor is invoked only after download_file_with_retry returned
\* True and perform_checksum returned True, so only on a file whose digest
\* equals the hash the pointer declares.
C1_ExtractionOnlyAfterVerification ==
    jobs # <<>> =>
        /\ download_succeeded = "true"
        /\ checksum = "true"
        /\ expected_hash.some
        /\ expected_hash.val = sha256_hash(file)

\* An extraction that ran to its end after a download that needed a retry.
C1_Witness ==
    /\ jobs # <<>>
    /\ jobs[1].pc = "ok"
    /\ Len(reqLog) >= 2

\* C2: from a destination holding the first N bytes of the payload and a
\* server that honours Range, a download that returns True leaves exactly
\* the payload on disk.
C2_ResumeYieldsPayload ==
    (honours /\ IsPrefix(initial.file, Payload) /\ download_succeeded = "true")
        => file = Payload

\* A download resumed from a partial file that failed in mid-stream after a
\* partial write and then completed.
C2_Witness ==
    /\ honours
    /\ initial.exists
    /\ Len(initial.file) >= 1
    /\ download_succeeded = "true"
    /\ retry_count >= 1
    /\ \E i \in DOMAIN reqLog :
        /\ reqLog[i].size > Len(initial.file)
        /\ reqLog[i].size < PayloadLen

\* C3: the destination is append-only: no step shortens it, changes a byte
\* already written or removes it.
C3_AppendOnly ==
    [][IsPrefix(file, file') /\ (fileExists => fileExists')]_vars

\* An interrupt delivered after a retry and a partial write.
C3_Witness ==
    /\ download_succeeded = "interrupted"
    /\ retry_count >= 1
    /\ Len(file) > Len(initial.file)

\* C4: a non-success status other than 416, received while retry budget
\* remains, is handled as a retryable error (the retry handler runs).
C4_ErrorStatusIsRetried ==
    [][(/\ pc = "dl_get"
        /\ Len(statusLog') > Len(statusLog)
        /\ IsErrorStatus(Last(statusLog'))
        /\ BudgetLeft(retry_count + 1, args.max_retries))
            => pc' = "dl_except"]_vars

\* C5: when every attempt failed, the downloader returns False and raises
\* nothing.
C5_ExhaustionReturnsFalse ==
    (AllAttemptsFailed /\ download_succeeded \notin {"none", "interrupted"})
        => download_succeeded = "false"

\* C6: with max_retries = N >= 1 and only transport errors, the downloader
\* has issued N + 1 requests when it returns False.
C6_InitialAttemptPlusNRetries ==
    (/\ download_succeeded = "false"
     /\ args.max_retries >= 1
     /\ \A i \in DOMAIN statusLog : statusLog[i] = 0)
        => Len(reqLog) = args.max_retries + 1

\* C7: a 416 makes the call return True at once: nothing is written, the
\* retry counter stays, and no request follows.
C7_RangeNotSatisfiableIsSuccess ==
    [][/\ Got416' => /\ download_succeeded' = "true"
                     /\ file' = file
                     /\ fileExists' = fileExists
                     /\ retry_count' = retry_count
       /\ Got416 => /\ reqLog' = reqLog
                    /\ statusLog' = statusLog]_vars

\* A 416 received on a retry, with the pipeline at its end.
C7_Witness ==
    /\ Got416
    /\ Len(statusLog) >= 2
    /\ pc = "done"

\* C8: every request carries the Range offset that equals the size of the
\* destination when it is sent, and no Range header when there is no file.
C8_RangeIsSizeOnDisk ==
    \A i \in DOMAIN reqLog :
        reqLog[i].hdr = IF reqLog[i].existed
                        THEN [has |-> TRUE, off |-> reqLog[i].size]
                        ELSE NoRange

\* A retry sent after a partial write to a file that did not exist at first.
C8_Witness ==
    /\ ~initial.exists
    /\ \E i \in DOMAIN reqLog :
        /\ i >= 2
        /\ reqLog[i].existed
        /\ reqLog[i].size >= 1
        /\ reqLog[i].size < PayloadLen

ChainCase ==
    /\ layout.kind = "chain"
    /\ jobs # <<>>
    /\ initial.exists = FALSE
    /\ Dest \in DOMAIN files

\* C9: a chain nested to depth D >= 1 extracted with max_recursion_depth =
\* D - 1: the top-level call fails with the depth error, and no entry of the
\* container at level D reaches the disk.
C9_DepthBoundStopsDeepest ==
    (ChainCase /\ layout.depth >= 1
               /\ args.max_recursion_depth = layout.depth - 1)
        => /\ Finished(1) => jobs[1].err = "AssertionError"
           /\ ChainFile(layout.depth) \notin DOMAIN files

\* C10: a chain nested to depth D extracted with max_recursion_depth = D:
\* no call raises the depth error, and the top-level call succeeds with
\* every level on disk.
C10_DepthBoundAdmitsAll ==
    (ChainCase /\ args.max_recursion_depth = layout.depth)
        => /\ \A j \in DOMAIN jobs : jobs[j].err # "AssertionError"
           /\ Finished(1) =>
                /\ jobs[1].pc = "ok"
                /\ \A k \in 0..layout.depth : ChainFile(k) \in DOMAIN files

\* The number of containers a call's container lies below the top-level one.
NestingLevel(j) ==
    LET lv[k \in DOMAIN jobs] ==
            IF jobs[k].parent = 0 THEN 0 ELSE lv[jobs[k].parent] + 1
    IN  lv[j]

Children(j) == {c \in DOMAIN jobs : jobs[c].parent = j}

\* A call that has incremented its depth and has not returned.
Active(j) == jobs[j].pc \notin {"start", "ok", "err"}

\* C11: the depth grows by exactly 1 per nesting level: the top-level call
\* runs at depth 0 and a container k levels below it at depth k.
C11_DepthIsNestingLevel ==
    \A j \in DOMAIN jobs :
        jobs[j].pc # "start" => jobs[j].depth = NestingLevel(j)

\* C12: no call runs with a current depth above max_recursion_depth.
C12_DepthNeverAboveMax ==
    \A j \in DOMAIN jobs :
        Active(j) => jobs[j].depth <= args.max_recursion_depth

\* C13: a call one of whose nested extractions failed does not return
\* normally.
C13_NestedFailureSurfaces ==
    \A j \in DOMAIN jobs :
        jobs[j].pc = "ok" => \A c \in Children(j) : jobs[c].pc # "err"

\* C14: when a call has returned, normally or with an error, every nested
\* extraction it scheduled has finished.
C14_ReturnAfterNestedFinished ==
    \A j \in DOMAIN jobs :
        Finished(j) => \A c \in Children(j) : Finished(c)

\* A call failed inside extract() after it had submitted a nested
\* extraction in the same pass, and has returned.
C14_Witness ==
    \E j \in DOMAIN jobs :
        /\ jobs[j].pc = "err"
        /\ jobs[j].err = "OSError"
        /\ jobs[j].futures # {}
        /\ Children(j) # {}

\* A call running as an executor worker: submitted and not yet returned.
RunningWorker(j) == jobs[j].parent # 0 /\ ~Finished(j)

\* The calls a call is nested in.
JobAncestors(j) ==
    LET an[k \in DOMAIN jobs] ==
            IF jobs[k].parent = 0 THEN {}
            ELSE {jobs[k].parent} \cup an[jobs[k].parent]
    IN  an[j]

\* C15: concurrently running workers never create, write or delete the
\* same path (a worker and the workers it waits for set aside).
C15_WorkersDisjoint ==
    \A j, k \in DOMAIN jobs :
        (/\ j # k
         /\ RunningWorker(j) /\ RunningWorker(k)
         /\ j \notin JobAncestors(k) /\ k \notin JobAncestors(j))
            => jobs[j].touched \cap jobs[k].touched = {}

\* The container a call extracted is still on disk at the call's path.
StillOnDisk(j) ==
    /\ jobs[j].zip \in DOMAIN files
    /\ files[jobs[j].zip] = [kind |-> "zip", c |-> jobs[j].cont]

\* C16: once the top-level call has returned normally, every nested
\* container whose recursive extraction succeeded is gone from the disk.
C16_ExtractedNestedDeleted ==
    jobs # <<>> /\ jobs[1].pc = "ok" =>
        \A j \in DOMAIN jobs :
            (jobs[j].parent # 0 /\ jobs[j].pc = "ok") => ~StillOnDisk(j)

\* A step that leaves the top-level container, if on disk, as it is.
KeepsTopLevelContainer ==
    Dest \in DOMAIN files =>
        (Dest \in DOMAIN files' /\ files'[Dest] = files[Dest])

FailsOnMissingContainer ==
    \A j \in DOMAIN jobs :
        (/\ jobs[j].pc = "start"
         /\ jobs'[j].pc # "start"
         /\ ~Exists(jobs[j].zip))
            => /\ jobs'[j].pc = "err"
               /\ jobs'[j].err = "FileNotFoundError"
               /\ jobs'[j].touched = {}
               /\ files' = files
               /\ dirs' = dirs

\* C18: a call whose container path does not exist fails with
\* FileNotFoundError before it creates the target directory or extracts
\* anything; the file system is unchanged.
C18_MissingContainerFailsFirst == [][FailsOnMissingContainer]_vars

\* The top-level call was made on a missing container and has failed with
\* nothing on disk.
C18_Witness ==
    /\ jobs # <<>>
    /\ jobs[1].pc = "err"
    /\ jobs[1].err = "FileNotFoundError"
    /\ jobs[1].touched = {}
    /\ files = <<>>
    /\ dirs = {}

HasOidLine(bytes_data) ==
    LET lines == Split(bytes_data, "\n")
    IN  \E i \in 1..Len(lines) : StartsWithOid(lines[i])

\* perform_checksum has returned.
ChecksumReturned == checksum \in {"true", "false"}

\* C19: for a pointer file with no line beginning "oid sha256:" the expected
\* hash is absent and perform_checksum returns False, whatever the file holds.
C19_NoOidLineFailsChecksum ==
    (ChecksumReturned /\ ~HasOidLine(pointer_file))
        => (~expected_hash.some /\ checksum = "false")

\* The complete payload was checked against a pointer file that carries the
\* payload's digest on a line that does not begin with "oid sha256:".
C19_Witness ==
    /\ checksum = "false"
    /\ ~HasOidLine(pointer_file)
    /\ LET lines == Split(pointer_file, "\n")
       IN  \E i \in 1..Len(lines) : lines[i] = MarkerLine(sha256_hash(file))
    /\ file = Payload

\* C20: perform_checksum compares the two hashes without regard to letter
\* case: a declared hash equal to the file's digest up to case is a match.
C20_CaseInsensitiveMatch ==
    (/\ ChecksumReturned
     /\ expected_hash.some
     /\ Lower(expected_hash.val) = Lower(sha256_hash(file)))
        => checksum = "true"

\* C21: perform_checksum issues one pointer request and retries nothing; a
\* failed request ends the call with an error, never with a result.
C21_OnePointerFetchNoRetry ==
    /\ Len(pointer_log) <= 1
    /\ ChecksumReturned => pointer_log = <<HTTP_OK>>
    /\ (pointer_log # <<>> /\ pointer_log[1] # HTTP_OK)
           => (checksum = "raised" /\ pc = "done" /\ exit = "1")

\* The downloaded file was hashed, the pointer request timed out or was
\* refused, and the pipeline has ended with the error.
C21_Witness ==
    /\ download_succeeded = "true"
    /\ pointer_log = <<0>>
    /\ checksum = "raised"
    /\ pc = "done"

\* A step into or from a state in which the checksum did not match: the
\* pipeline has ended with the error status, nothing was extracted, and
\* nothing is requested or extracted afterwards.
MismatchIsFinal ==
    checksum' = "false" =>
        /\ pc' = "done"
        /\ exit' = "1"
        /\ jobs' = <<>>
        /\ checksum = "false" => UNCHANGED <<reqLog, pointer_log, file, jobs>>

\* C22: when the checksum does not match the pipeline ends in Failed, with
\* no further download request and no extraction.
C22_MismatchFailsWithoutRedownload == [][MismatchIsFinal]_vars

\* The download succeeded, extraction was requested, and the pointer file
\* declares a hash that is not the file's.
C22_Witness ==
    /\ download_succeeded = "true"
    /\ checksum = "false"
    /\ expected_hash.some
    /\ args.unzip
    /\ pc = "done"
    /\ exit = "1"
    /\ jobs = <<>>

\* C23: when download_file_with_retry returns False the pipeline ends with
\* a non-success exit status, and neither verification nor extraction runs.
C23_DownloadFailureFails ==
    (pc = "done" /\ download_succeeded = "false")
        => (exit = "1" /\ checksum = "none" /\ pointer_log = <<>> /\ jobs = <<>>)

FailureKinds == {"download_failed", "checksum_failed", "extraction_failed"}

\* The outcome the pipeline has ended with.
Outcome ==
    IF download_succeeded = "false" THEN "download_failed"
    ELSE IF checksum = "false" THEN "checksum_failed"
    ELSE IF jobs # <<>> /\ jobs[1].pc = "err" THEN "extraction_failed"
    ELSE IF /\ download_succeeded = "true"
            /\ checksum = "true"
            /\ args.unzip => (jobs # <<>> /\ jobs[1].pc = "ok")
    THEN "success"
    ELSE "other"

\* C24: the exit status tells the three failure kinds apart and from
\* success: a run that ended with one of them has an exit status that no
\* other of them, and not the success, ends with.
C24_ExitStatusTellsFailuresApart ==
    (pc = "done" /\ Outcome \in FailureKinds)
        => /\ exit = PipelineExit(Outcome)
           /\ \A other \in (FailureKinds \cup {"success"}) \ {Outcome} :
                  exit # PipelineExit(other)

\* C25: the extractor runs only when extraction was requested; a verified
\* download without the request ends the pipeline at once, nothing extracted.
C25_ExtractionOnlyOnRequest ==
    /\ (jobs # <<>> \/ pc \in {"main_extract", "main_extracting"})
           => args.unzip
    /\ (checksum = "true" /\ ~args.unzip)
           => (pc = "done" /\ exit = "0" /\ jobs = <<>> /\ files = <<>>)

\* The payload was downloaded and verified with no extraction requested.
C25_Witness ==
    /\ ~args.unzip
    /\ download_succeeded = "true"
    /\ checksum = "true"
    /\ file = Payload
    /\ pc = "done"
    /\ jobs = <<>>

\* What an extraction leaves, the progress display set aside.
Unobserved(r) ==
    [files |-> r.files,
     dirs |-> r.dirs,
     jobs |-> [k \in DOMAIN r.jobs |->
                  [r.jobs[k] EXCEPT !.pbar = 0, !.track = FALSE]]]

EntryOnDisk(j, e) ==
    LET target == jobs[j].to \o e.name IN
    IF e.kind = "dir" THEN target \in dirs
    ELSE target \in DOMAIN files /\ files[target] = [kind |-> e.kind, c |-> e.c]

\* The entry e is a nested container that a call expanded and deleted.
EntryExpanded(j, e) ==
    /\ e.kind = "zip"
    /\ ~EntryOnDisk(j, e)
    /\ \E k \in DOMAIN jobs :
          /\ jobs[k].zip = jobs[j].to \o e.name
          /\ jobs[k].cont = e.c
          /\ jobs[k].pc = "ok"

\* C27: after a successful call every entry of the container is at its
\* relative path under the target directory, except the nested containers
\* that were expanded and deleted.
C27_EveryEntryExtracted ==
    (jobs # <<>> /\ jobs[1].pc = "ok") =>
        \A i \in 1..Len(Entries(layout, 0)) :
            LET e == Entries(layout, 0)[i]
            IN  EntryOnDisk(1, e) \/ EntryExpanded(1, e)

\* A call of create_directory made in this step.
Called == created' # created

\* The first of two calls on a destination that does not exist returns
\* True, the second returns False and changes nothing.
TrueThenFalse(precondition) ==
    /\ (created = <<>> /\ precondition /\ Called) => created' = <<"true">>
    /\ (created = <<"true">> /\ Called)
           => (created' = <<"true", "false">> /\ UNCHANGED <<dirs, files>>)

\* C28 as stated: for every destination path that does not exist yet, two
\* calls in sequence return True, then False with the tree unchanged.
C28_TrueThenFalseOnNewPath ==
    [][TrueThenFalse(~Exists(args.destination))]_vars

\* The directory the call is to ensure does not exist and can be made: no
\* ancestor of it is a regular file.
EnsuredDirectoryIsNew ==
    LET directory == TargetDirectory(args.destination, args.is_directory)
    IN  ~DirectoryExists(directory) /\ CanMakeDirs(directory)

\* C28: when the directory to ensure does not exist and can be made, two
\* calls in sequence return True, then False with the tree unchanged.
C28_TrueThenFalseOnNewDirectory ==
    [][TrueThenFalse(EnsuredDirectoryIsNew)]_vars

\* Two calls were made on a nested directory path; the first made the
\* directory and a missing ancestor of it.
C28_Witness ==
    /\ pc = "cd_main"
    /\ args.is_directory
    /\ Len(args.destination) >= 2
    /\ created = <<"true", "false">>
    /\ args.destination \in dirs
    /\ Ancestors(args.destination) \subseteq dirs

\* str.strip: the text without the white space at its two ends.
RECURSIVE Strip(_)
Strip(text) ==
    IF text = <<>> THEN text
    ELSE IF Head(text) \in {"\r", "\n"} THEN Strip(Tail(text))
    ELSE IF Last(text) \in {"\r", "\n"}
         THEN Strip(SubSeq(text, 1, Len(text) - 1))
    ELSE text

\* The first line of the text that begins with "oid sha256:".
FirstOidLine(bytes_data) ==
    LET lines == Split(bytes_data, "\n")
    IN  lines[CHOOSE i \in 1..Len(lines) :
                /\ StartsWithOid(lines[i])
                /\ \A k \in 1..(i - 1) : ~StartsWithOid(lines[k])]

\* The hexadecimal token of a hash line: what follows "oid sha256:", without
\* white space around it.
HexToken(line) == Strip(SubSeq(line, 3, Len(line)))

\* extract_sha256_from_pointer_file has returned a hash.
HashExtracted == pc = "done" /\ checksum # "none" /\ expected_hash.some

\* C29: the hash extracted from a pointer file is exactly the hexadecimal
\* token of the first line beginning "oid sha256:", with no white space or
\* line terminator around it, whatever later lines hold.
C29_ExactTokenOfFirstOidLine ==
    (HashExtracted /\ HasOidLine(pointer_file))
        => expected_hash.val = HexToken(FirstOidLine(pointer_file))

\* The segments of a URL without its query string: the scheme and host, then
\* the segments of the path.
Segments(url) == Split(Split(url, "?")[1], "/")

\* The content URL with "raw" in the place of the path segment "resolve",
\* the third segment from the end, and without its query string.
RawUrl(url) ==
    LET segments == Segments(url)
    IN  Join([segments EXCEPT ![Len(segments) - 2] = <<"raw">>], "/")

\* C30: the pointer URL is the content URL with its path segment "resolve"
\* replaced by "raw" and its query string removed; host, other segments and
\* file name are unchanged, also when they hold the text "resolve".
C30_OnlyResolveSegmentReplaced ==
    pointer_file_url # <<>> => pointer_file_url = RawUrl(args.url)

\* The calls made for the containers nested inside the container of call j.
Descendants(j) == {k \in DOMAIN jobs : j \in JobAncestors(k)}

\* The call of a nested container has deleted its container.
DeletedOwnContainer(j) ==
    jobs[j].parent # 0 /\ jobs[j].pc = "ok" /\ jobs[j].zip \in jobs[j].touched

\* The extraction of a nested container, or of a container nested inside
\* it, has failed.
ExtractionFailed(j) ==
    /\ jobs[j].parent # 0
    /\ Finished(j)
    /\ \E k \in Descendants(j) \cup {j} : jobs[k].pc = "err"

\* C31: a nested container is deleted only if its extraction and that of
\* every container nested inside it completed without error; one whose
\* extraction or whose descendant's extraction failed remains on disk.
C31_DeletedOnlyAfterFullSuccess ==
    \A j \in DOMAIN jobs :
        /\ DeletedOwnContainer(j) => \A k \in Descendants(j) : jobs[k].pc = "ok"
        /\ ExtractionFailed(j) => jobs[j].zip \in DOMAIN files

\* The calls a call has submitted for the nested container at a path.
Submissions(j, path) == {c \in Children(j) : jobs[c].zip = path}

\* C32: during one top-level extraction every nested container is submitted
\* for recursive extraction at most once, however many entries its parent
\* holds and whether or not its extraction fails.
C32_SubmittedAtMostOnce ==
    \A j \in DOMAIN jobs :
        \A c \in Children(j) : Submissions(j, jobs[c].zip) = {c}

C34_HashBeforePointerRequest ==
    ~fileExists =>
        /\ pointer_log = <<>>
        /\ pc # "ck_hash" => (pc = "raised" /\ checksum = "OSError")

\* perform_checksum was called on a missing file and has failed.
C34_Witness ==
    /\ ~fileExists
    /\ pc = "raised"
    /\ checksum = "OSError"
    /\ exit = "1"

\* The top-level call has been made.
TopLevelCalled == jobs # <<>>

\* The top-level call has returned or raised.
TopLevelFinished == jobs # <<>> /\ Finished(1)

\* C35: with the threads scheduled fairly every top-level call of
\* extract_zip_file_recursive eventually returns or raises, also when nested
\* extractions fail.
C35_ExtractionTerminates == TopLevelCalled ~> TopLevelFinished

\* The top-level call has returned after a nested extraction failed and
\* another succeeded.
C35_Witness ==
    /\ TopLevelFinished
    /\ \E j \in DOMAIN jobs : jobs[j].parent # 0 /\ jobs[j].pc = "err"
    /\ \E j \in DOMAIN jobs : jobs[j].parent # 0 /\ jobs[j].pc = "ok"

====
